---- MODULE Spec2Model ----
(***************************************************************************)
(* A model of rcue, a reader for CUE sheets.                               *)
(*                                                                         *)
(* A line is a sequence of one-character strings.  The line tokenizer      *)
(* (parser.rs, tokenize_line), the string helpers (util.rs) and the        *)
(* assembler loop (parser.rs, parse) are translated operator by operator.  *)
(* One step of the state machine is one iteration of the `for` loop of     *)
(* parse; a last step is the `Ok(cue)` that follows the loop.               *)
(***************************************************************************)
EXTENDS Integers, Sequences, FiniteSets, TLC

(***************************************************************************)
(* Bounds of the model.                                                    *)
(***************************************************************************)
\* the longest stream the reader yields before end-of-stream
MaxLines == 4

(***************************************************************************)
(* Characters.                                                             *)
(***************************************************************************)
Lower == <<"a","b","c","d","e","f","g","h","i","j","k","l","m",
           "n","o","p","q","r","s","t","u","v","w","x","y","z">>
Upper == <<"A","B","C","D","E","F","G","H","I","J","K","L","M",
           "N","O","P","Q","R","S","T","U","V","W","X","Y","Z">>
Digits == <<"0","1","2","3","4","5","6","7","8","9">>

SP == " "
TAB == "\t"
QUOTE == "\""
BACKSLASH == "\\"
COLON == ":"

\* char::is_whitespace, on the characters of the model
IsWhitespace(c) == c \in {SP, TAB}

IsDigit(c) == \E i \in 1..10 : Digits[i] = c

DigitVal(c) == (CHOOSE i \in 1..10 : Digits[i] = c) - 1

\* char::to_uppercase
CharToUpper(c) ==
    IF \E i \in 1..26 : Lower[i] = c
    THEN Upper[CHOOSE i \in 1..26 : Lower[i] = c]
    ELSE c

\* a to_uppercase that leaves the string as it is
keep_case(s) == s

\* str::to_uppercase
to_uppercase(s) == [i \in 1..Len(s) |-> CharToUpper(s[i])]

(***************************************************************************)
(* std string helpers used by the tokenizer.                               *)
(***************************************************************************)
RECURSIVE trim_start(_)
trim_start(s) ==
    IF s # <<>> /\ IsWhitespace(Head(s)) THEN trim_start(Tail(s)) ELSE s

RECURSIVE trim_end(_)
trim_end(s) ==
    IF s # <<>> /\ IsWhitespace(s[Len(s)])
    THEN trim_end(SubSeq(s, 1, Len(s) - 1))
    ELSE s

\* a trim that leaves the leading whitespace
trim_keeps_indent(s) == trim_end(s)

\* str::trim
trim(s) == trim_end(trim_start(s))

\* str::split(char): always yields at least one piece, pieces may be empty
RECURSIVE split(_, _)
split(s, sep) ==
    IF \E i \in 1..Len(s) : s[i] = sep
    THEN LET i == CHOOSE k \in 1..Len(s) :
                    s[k] = sep /\ \A j \in 1..(k - 1) : s[j] # sep
         IN  <<SubSeq(s, 1, i - 1)>> \o split(SubSeq(s, i + 1, Len(s)), sep)
    ELSE <<s>>

\* Itertools::join
RECURSIVE join(_, _)
join(ts, sep) ==
    IF ts = <<>> THEN <<>>
    ELSE IF Len(ts) = 1 THEN ts[1]
    ELSE ts[1] \o <<sep>> \o join(Tail(ts), sep)

\* str::replace("\\\"", "\""): every backslash-quote pair, left to right
RECURSIVE replace_escaped(_)
replace_escaped(s) ==
    IF s = <<>> THEN <<>>
    ELSE IF Len(s) >= 2 /\ s[1] = BACKSLASH /\ s[2] = QUOTE
         THEN <<QUOTE>> \o replace_escaped(SubSeq(s, 3, Len(s)))
         ELSE <<s[1]>> \o replace_escaped(Tail(s))

(***************************************************************************)
(* util.rs                                                                 *)
(***************************************************************************)
\* The result of a string helper: a string, or a panic of the thread.
StrOk(s) == [panic |-> FALSE, s |-> s]
StrPanic == [panic |-> TRUE, s |-> <<>>]

\* unescape_quotes: `pop` takes the closing quote, `remove(0)` the opening
\* one; on the one-character string `"` the pop empties the string and
\* String::remove(0) panics.
unescape_quotes(s) ==
    LET unescaped == replace_escaped(s)
    IN  IF unescaped # <<>> /\ unescaped[Len(unescaped)] = QUOTE
                            /\ unescaped[1] = QUOTE
        THEN IF Len(unescaped) = 1
             THEN StrPanic
             ELSE StrOk(SubSeq(unescaped, 2, Len(unescaped) - 1))
        ELSE StrOk(unescaped)

\* the name under which parser.rs imports the unescaping helper
unescape_string(s) == unescape_quotes(s)

\* next_group: chars.take_while(|c| *c != ':'), which also consumes the ':'
next_group(s) ==
    IF \E i \in 1..Len(s) : s[i] = COLON
    THEN LET i == CHOOSE k \in 1..Len(s) :
                    s[k] = COLON /\ \A j \in 1..(k - 1) : s[j] # COLON
         IN  [group |-> SubSeq(s, 1, i - 1), rest |-> SubSeq(s, i + 1, Len(s))]
    ELSE [group |-> s, rest |-> <<>>]

RECURSIVE DecimalValue(_)
DecimalValue(ds) ==
    IF ds = <<>> THEN 0
    ELSE 10 * DecimalValue(SubSeq(ds, 1, Len(ds) - 1)) + DigitVal(ds[Len(ds)])

AllDigits(ds) == \A i \in 1..Len(ds) : IsDigit(ds[i])

RECURSIVE StripZeros(_)
StripZeros(ds) ==
    IF ds # <<>> /\ Head(ds) = "0" THEN StripZeros(Tail(ds)) ELSE ds

\* the most significant digits a field of the model carries
MaxDigits == 3

\* str::parse::<u64>: an optional '+', then one or more ASCII digits.
\* Fields of the model carry at most MaxDigits significant digits, so the
\* value always fits and PosOverflow does not arise.
parse_u64(s) ==
    LET ds == IF s # <<>> /\ Head(s) = "+" THEN Tail(s) ELSE s
    IN  IF ds # <<>> /\ AllDigits(ds) /\ Len(StripZeros(ds)) <= MaxDigits
        THEN [ok |-> TRUE, v |-> DecimalValue(ds)]
        ELSE [ok |-> FALSE, v |-> 0]

RECURSIVE Pow10(_)
Pow10(e) == IF e = 0 THEN 1 ELSE 10 * Pow10(e - 1)

\* str::parse::<f64> on the literals of the model: an optional sign, digits
\* with an optional '.' followed by zeros only, and an optional exponent,
\* 'e' or 'E' with an optional '+' and one digit.  The value is a whole
\* number of at most MaxDigits significant digits; fractions, negative
\* exponents, "inf" and "nan" are not among the literals of the model.
parse_f64(s) ==
    LET neg    == s # <<>> /\ Head(s) = "-"
        body   == IF s # <<>> /\ Head(s) \in {"+", "-"} THEN Tail(s) ELSE s
        isE(c) == c \in {"e", "E"}
        hasExp == \E i \in 1..Len(body) : isE(body[i])
        epos   == IF hasExp
                  THEN CHOOSE k \in 1..Len(body) :
                           isE(body[k]) /\ \A j \in 1..(k - 1) : ~isE(body[j])
                  ELSE Len(body) + 1
        mant   == SubSeq(body, 1, epos - 1)
        expo   == SubSeq(body, epos + 1, Len(body))
        edig   == IF expo # <<>> /\ Head(expo) = "+" THEN Tail(expo) ELSE expo
        dot    == \E i \in 1..Len(mant) : mant[i] = "."
        int    == IF dot
                  THEN next_group([i \in 1..Len(mant) |->
                           IF mant[i] = "." THEN COLON ELSE mant[i]]).group
                  ELSE mant
        frac   == IF dot THEN SubSeq(mant, Len(int) + 2, Len(mant)) ELSE <<>>
        e      == IF hasExp THEN DecimalValue(edig) ELSE 0
    IN  IF /\ \A i \in 1..Len(body) : body[i] # COLON
           /\ int # <<>> \/ frac # <<>>
           /\ AllDigits(int)
           /\ \A i \in 1..Len(frac) : frac[i] = "0"
           /\ hasExp => (edig # <<>> /\ AllDigits(edig) /\ Len(edig) <= 1)
           /\ StripZeros(int) = <<>> \/ Len(StripZeros(int)) + e <= MaxDigits
        THEN [ok |-> TRUE, neg |-> neg, v |-> DecimalValue(int) * Pow10(e)]
        ELSE [ok |-> FALSE, neg |-> FALSE, v |-> 0]

\* The frame counts below 1000 for which the f64 product
\* (frames / 75.0).fract() * 1000000000f64 lies just under the exact
\* quotient, so that the `as u32` truncation gives one nanosecond less
\* (IEEE-754 double arithmetic, round to nearest even).
F64RoundsDown ==
    {87, 90, 105, 108, 123, 126, 141, 144, 171, 174, 177, 180, 183, 207, 210,
     213, 216, 219, 246, 249, 252, 255, 258, 282, 285, 288, 291, 294, 339,
     342, 345, 348, 351, 354, 357, 360, 363, 366, 369, 414, 417, 420, 423,
     426, 429, 432, 435, 438, 441, 444, 489, 492, 495, 498, 501, 504, 507,
     510, 513, 516, 519, 564, 567, 570, 573, 576, 579, 582, 585, 588, 591,
     594, 603, 609, 615, 621, 627, 633, 639, 645, 651, 657, 663, 669, 678,
     684, 690, 696, 702, 708, 714, 720, 726, 732, 738, 744, 753, 759, 765,
     771, 777, 783, 789, 795, 801, 807, 813, 819, 828, 834, 840, 846, 852,
     858, 864, 870, 876, 882, 888, 894, 903, 909, 915, 921, 927, 933, 939,
     945, 951, 957, 963, 969, 978, 984, 990, 996}

\* (frame_seconds.fract() * 1000000000f64) as u32, for a whole frame count:
\* r / 75 * 10^9 = r * 13333333 + r / 3, truncated
FractNanos(frames) ==
    LET r == frames % 75
    IN  (r * 13333333 + r \div 3) - (IF frames \in F64RoundsDown THEN 1 ELSE 0)

Duration(secs, nanos) == [secs |-> secs, nanos |-> nanos]

TsOk(d) == [ok |-> TRUE, duration |-> d]
TsErr == [ok |-> FALSE, duration |-> Duration(0, 0)]

\* timestamp_to_duration: the frames field is parsed first, then minutes,
\* then seconds; each `?` returns the error.  A negative frame count
\* saturates to 0 in both `as` casts.
timestamp_to_duration(s) ==
    LET g1      == next_group(s)
        g2      == next_group(g1.rest)
        minutes == parse_u64(g1.group)
        seconds == parse_u64(g2.group)
        frames  == parse_f64(g2.rest)
    IN  IF ~frames.ok THEN TsErr
        ELSE IF ~minutes.ok THEN TsErr
        ELSE IF ~seconds.ok THEN TsErr
        ELSE IF frames.neg
             THEN TsOk(Duration(minutes.v * 60 + seconds.v, 0))
             ELSE TsOk(Duration(minutes.v * 60 + seconds.v + frames.v \div 75,
                                FractNanos(frames.v)))

(***************************************************************************)
(* parser.rs: the line tokenizer.                                          *)
(***************************************************************************)
KwREM       == <<"R","E","M">>
KwCATALOG   == <<"C","A","T","A","L","O","G">>
KwTITLE     == <<"T","I","T","L","E">>
KwFILE      == <<"F","I","L","E">>
KwPERFORMER == <<"P","E","R","F","O","R","M","E","R">>
KwTRACK     == <<"T","R","A","C","K">>
KwPREGAP    == <<"P","R","E","G","A","P">>
KwPOSTGAP   == <<"P","O","S","T","G","A","P">>
KwINDEX     == <<"I","N","D","E","X">>

\* enum Token, and the three outcomes of tokenize_line: Ok(token),
\* Err(CueError::Parse(reason)) and a panic inside the unescaping helper
TokOk(tag, a, b) == [res |-> "Ok", tag |-> tag, a |-> a, b |-> b, err |-> ""]
TokErr(reason) ==
    [res |-> "Err", tag |-> "", a |-> <<>>, b |-> <<>>, err |-> reason]
TokPanic == [res |-> "Panic", tag |-> "", a |-> <<>>, b |-> <<>>, err |-> ""]

\* a token with one unescaped string argument
TokString(tag, raw) ==
    LET val == unescape_string(raw)
    IN  IF val.panic THEN TokPanic ELSE TokOk(tag, val.s, <<>>)

tokenize_line(line) ==
    LET tokens    == split(trim(line), SP)
        t         == Head(tokens)
        rest      == Tail(tokens)
        uppercase == to_uppercase(t)
    IN  CASE uppercase = KwREM ->
               IF rest = <<>> THEN TokErr("missing REM key")
               ELSE LET val == unescape_string(join(Tail(rest), SP))
                    IN  IF val.panic THEN TokPanic
                        ELSE TokOk("Rem", Head(rest), val.s)
          [] uppercase = KwCATALOG -> TokString("Catalog", join(rest, SP))
          [] uppercase = KwTITLE -> TokString("Title", join(rest, SP))
          [] uppercase = KwFILE ->
               IF rest = <<>> THEN TokErr("bare FILE token")
               ELSE LET format == rest[Len(rest)]
                        vals   == SubSeq(rest, 1, Len(rest) - 1)
                        val    == unescape_string(join(vals, SP))
                    IN  IF val.panic THEN TokPanic
                        ELSE TokOk("File", val.s, format)
          [] uppercase = KwPERFORMER -> TokString("Performer", join(rest, SP))
          [] uppercase = KwTRACK ->
               IF Len(rest) < 1 THEN TokErr("missing TRACK number")
               ELSE IF Len(rest) < 2 THEN TokErr("missing TRACK mode")
               ELSE TokOk("Track", rest[1], rest[2])
          [] uppercase = KwPREGAP ->
               IF Len(rest) < 1 THEN TokErr("missing PREGAP duration")
               ELSE TokOk("Pregap", rest[1], <<>>)
          [] uppercase = KwPOSTGAP ->
               IF Len(rest) < 1 THEN TokErr("missing POSTGAP duration")
               ELSE TokOk("Postgap", rest[1], <<>>)
          [] uppercase = KwINDEX ->
               IF Len(rest) < 1 THEN TokErr("missing INDEX number")
               ELSE IF Len(rest) < 2 THEN TokErr("missing INDEX time")
               ELSE TokOk("Index", rest[1], rest[2])
          [] OTHER ->
               IF t = <<>> THEN TokOk("None", <<>>, <<>>)
               ELSE TokOk("Unknown", line, <<>>)

(***************************************************************************)
(* parser.rs: the records.  An Option is a sequence of length 0 or 1.      *)
(***************************************************************************)
None == <<>>
Some(x) == <<x>>

\* Track::new
NewTrack(no, format) ==
    [no |-> no, format |-> format, title |-> None, performer |-> None,
     pregap |-> None, postgap |-> None, indices |-> <<>>,
     comments |-> <<>>, unknown |-> <<>>]

\* CueFile::new
NewCueFile(file, format) ==
    [file |-> file, tracks |-> <<>>, format |-> format, comments |-> <<>>]

\* Cue::new
NewCue ==
    [files |-> <<>>, title |-> None, performer |-> None, catalog |-> None,
     comments |-> <<>>, unknown |-> <<>>]

(***************************************************************************)
(* parser.rs: the assembler.                                               *)
(***************************************************************************)
\* a last_file that gives the first file of the disc
first_file(c) == IF Len(c.files) > 0 THEN Some(1) ELSE None

\* last_file(cue): the position of the last file, if any
last_file(c) == IF Len(c.files) > 0 THEN Some(Len(c.files)) ELSE None

\* a last_track that looks for the newest track of the whole disc
last_track_of_disc(c) ==
    LET withTracks == {f \in 1..Len(c.files) : Len(c.files[f].tracks) > 0}
    IN  IF withTracks = {} THEN None
        ELSE LET f == CHOOSE x \in withTracks : \A y \in withTracks : y <= x
             IN  Some(<<f, Len(c.files[f].tracks)>>)

\* last_track(cue): the position <<file, track>> of the last track of the
\* last file, if any
last_track(c) ==
    IF last_file(c) = None THEN None
    ELSE LET f == last_file(c)[1]
         IN  IF Len(c.files[f].tracks) > 0
             THEN Some(<<f, Len(c.files[f].tracks)>>)
             ELSE None

HasFile(c) == last_file(c) # None
HasTrack(c) == last_track(c) # None

\* the track last_track(cue) refers to
CurrentTrack(c) == c.files[last_track(c)[1][1]].tracks[last_track(c)[1][2]]

Running == [tag |-> "Running", kind |-> "", msg |-> ""]
OkResult == [tag |-> "Ok", kind |-> "", msg |-> ""]
ErrParse(msg) == [tag |-> "Err", kind |-> "Parse", msg |-> msg]
Panicked == [tag |-> "Panic", kind |-> "", msg |-> ""]

\* the loop goes on with the record c
Continue(c) == [cue |-> c, result |-> Running]

\* a fail_if_strict! that returns the failure in either mode
fail_in_both_modes(c, isStrict, reason) ==
    [cue |-> c, result |-> ErrParse("strict mode failure: " \o reason)]

\* a fail_if_strict! that never returns
fail_in_no_mode(c, isStrict, reason) == [cue |-> c, result |-> Running]

\* fail_if_strict!: return the failure when strict, fall through otherwise
fail_if_strict(c, isStrict, reason) ==
    IF isStrict
    THEN [cue |-> c, result |-> ErrParse("strict mode failure: " \o reason)]
    ELSE Continue(c)

\* the comments without those under the key of `comment`, then `comment`
RECURSIVE PutComment(_, _)
PutComment(comments, comment) ==
    IF comments = <<>> THEN <<comment>>
    ELSE IF Head(comments)[1] = comment[1]
         THEN PutComment(Tail(comments), comment)
         ELSE <<Head(comments)>> \o PutComment(Tail(comments), comment)

\* a REM arm that keeps one comment for each key
OnRem_keyed(c, field, value) ==
    LET comment == <<field, value>>
        f == Len(c.files)
        t == IF f > 0 THEN Len(c.files[f].tracks) ELSE 0
    IN  [cue |-> IF t > 0
                 THEN [c EXCEPT !.files[f].tracks[t].comments =
                                    PutComment(@, comment)]
                 ELSE IF f > 0
                 THEN [c EXCEPT !.files[f].comments = PutComment(@, comment)]
                 ELSE [c EXCEPT !.comments = PutComment(@, comment)],
         result |-> Running]

\* Ok(Token::Rem(field, value))
OnRem(c, field, value) ==
    LET comment == <<field, value>>
        f == last_file(c)[1]
        t == last_track(c)[1]
    IN  IF last_track(c) # None
        THEN Continue([c EXCEPT !.files[t[1]].tracks[t[2]].comments =
                                    Append(@, comment)])
        ELSE IF last_file(c) # None
        THEN Continue([c EXCEPT !.files[f].comments = Append(@, comment)])
        ELSE Continue([c EXCEPT !.comments = Append(@, comment)])

\* a FILE arm that does not repeat the file it has just added
OnFile_unique(c, file, format) ==
    IF Len(c.files) > 0 /\ c.files[Len(c.files)] = NewCueFile(file, format)
    THEN [cue |-> c, result |-> Running]
    ELSE [cue |-> [c EXCEPT !.files = Append(@, NewCueFile(file, format))],
          result |-> Running]

\* Ok(Token::File(file, format))
OnFile(c, file, format) ==
    Continue([c EXCEPT !.files = Append(@, NewCueFile(file, format))])

\* a TRACK arm that opens a file of its own when there is none
OnTrack_opens_file(c, idx, mode, isStrict) ==
    LET d == IF Len(c.files) > 0 THEN c
             ELSE [c EXCEPT !.files = <<NewCueFile(<<>>, <<>>)>>]
    IN  [cue |-> [d EXCEPT !.files[Len(d.files)].tracks =
                               Append(@, NewTrack(idx, mode))],
         result |-> Running]

\* Ok(Token::Track(idx, mode))
OnTrack(c, idx, mode, isStrict) ==
    IF last_file(c) # None
    THEN Continue([c EXCEPT !.files[last_file(c)[1]].tracks =
                                Append(@, NewTrack(idx, mode))])
    ELSE fail_if_strict(c, isStrict, "TRACK assigned to no FILE")

\* a TITLE arm that always writes the disc
OnTitle_disc(c, title) ==
    [cue |-> [c EXCEPT !.title = <<title>>], result |-> Running]

\* Ok(Token::Title(title))
OnTitle(c, title) ==
    LET t == last_track(c)[1]
    IN  IF last_track(c) # None
        THEN Continue([c EXCEPT !.files[t[1]].tracks[t[2]].title =
                                    Some(title)])
        ELSE Continue([c EXCEPT !.title = Some(title)])

\* a PERFORMER arm that keeps the first performer of a context
OnPerformer_keeps_first(c, performer) ==
    LET t == last_track(c)[1]
    IN  IF last_track(c) # None
        THEN [cue |-> [c EXCEPT !.files[t[1]].tracks[t[2]].performer =
                                    IF @ = <<>> THEN <<performer>> ELSE @],
              result |-> Running]
        ELSE [cue |-> [c EXCEPT !.performer =
                                    IF @ = <<>> THEN <<performer>> ELSE @],
              result |-> Running]

\* Ok(Token::Performer(performer))
OnPerformer(c, performer) ==
    LET t == last_track(c)[1]
    IN  IF last_track(c) # None
        THEN Continue([c EXCEPT !.files[t[1]].tracks[t[2]].performer =
                                    Some(performer)])
        ELSE Continue([c EXCEPT !.performer = Some(performer)])

\* an INDEX arm that keeps an index whose timestamp does not convert
OnIndex_keeps_bad(c, idx, time, isStrict) ==
    LET t == last_track(c)[1]
    IN  IF last_track(c) # None
        THEN [cue |-> [c EXCEPT !.files[t[1]].tracks[t[2]].indices =
                         Append(@, <<idx,
                                     timestamp_to_duration(time).duration>>)],
              result |-> Running]
        ELSE fail_if_strict(c, isStrict, "INDEX assigned to no track")

\* Ok(Token::Index(idx, time))
OnIndex(c, idx, time, isStrict) ==
    LET t == last_track(c)[1]
    IN  IF last_track(c) # None
        THEN LET ts == timestamp_to_duration(time)
             IN  IF ts.ok
                 THEN Continue([c EXCEPT !.files[t[1]].tracks[t[2]].indices =
                                    Append(@, <<idx, ts.duration>>)])
                 ELSE fail_if_strict(c, isStrict, "bad INDEX timestamp")
        ELSE fail_if_strict(c, isStrict, "INDEX assigned to no track")

\* a PREGAP arm whose bad timestamp clears the pregap of the track
OnPregap_resets(c, time, isStrict) ==
    LET t == last_track(c)[1]
    IN  IF last_track(c) # None
        THEN LET ts == timestamp_to_duration(time)
             IN  IF ts.ok
                 THEN Continue([c EXCEPT !.files[t[1]].tracks[t[2]].pregap =
                                    Some(ts.duration)])
                 ELSE IF isStrict
                 THEN fail_if_strict(c, isStrict, "bad PREGAP timestamp")
                 ELSE Continue([c EXCEPT !.files[t[1]].tracks[t[2]].pregap =
                                    None])
        ELSE fail_if_strict(c, isStrict, "PREGAP assigned to no track")

\* Ok(Token::Pregap(time))
OnPregap(c, time, isStrict) ==
    LET t == last_track(c)[1]
    IN  IF last_track(c) # None
        THEN LET ts == timestamp_to_duration(time)
             IN  IF ts.ok
                 THEN Continue([c EXCEPT !.files[t[1]].tracks[t[2]].pregap =
                                    Some(ts.duration)])
                 ELSE fail_if_strict(c, isStrict, "bad PREGAP timestamp")
        ELSE fail_if_strict(c, isStrict, "PREGAP assigned to no track")

\* a POSTGAP arm that writes the pregap of the track
OnPostgap_writes_pregap(c, time, isStrict) ==
    LET t == last_track(c)[1]
    IN  IF last_track(c) # None
        THEN LET ts == timestamp_to_duration(time)
             IN  IF ts.ok
                 THEN [cue |-> [c EXCEPT !.files[t[1]].tracks[t[2]].pregap =
                                    <<ts.duration>>],
                       result |-> Running]
                 ELSE fail_if_strict(c, isStrict, "bad PREGAP timestamp")
        ELSE fail_if_strict(c, isStrict, "POSTGAP assigned to no track")

\* Ok(Token::Postgap(time))
OnPostgap(c, time, isStrict) ==
    LET t == last_track(c)[1]
    IN  IF last_track(c) # None
        THEN LET ts == timestamp_to_duration(time)
             IN  IF ts.ok
                 THEN Continue([c EXCEPT !.files[t[1]].tracks[t[2]].postgap =
                                    Some(ts.duration)])
                 ELSE fail_if_strict(c, isStrict, "bad PREGAP timestamp")
        ELSE fail_if_strict(c, isStrict, "POSTGAP assigned to no track")

\* a Catalog arm that keeps the first catalog number of the disc
OnCatalog_keeps_first(c, id) ==
    IF c.catalog = None THEN Continue([c EXCEPT !.catalog = Some(id)])
    ELSE Continue(c)

\* Ok(Token::Catalog(id))
OnCatalog(c, id) == Continue([c EXCEPT !.catalog = Some(id)])

\* an Unknown arm that keeps the line without the whitespace around it
OnUnknown_trimmed(c, line, isStrict) ==
    LET t == last_track(c)[1]
    IN  IF isStrict
        THEN [cue |-> c,
              result |-> ErrParse("strict mode failure: unknown token")]
        ELSE IF last_track(c) # None
        THEN [cue |-> [c EXCEPT !.files[t[1]].tracks[t[2]].unknown =
                                    Append(@, trim(line))],
              result |-> Running]
        ELSE [cue |-> [c EXCEPT !.unknown = Append(@, trim(line))],
              result |-> Running]

\* Ok(Token::Unknown(line))
OnUnknown(c, line, isStrict) ==
    LET failed == fail_if_strict(c, isStrict, "unknown token")
        t      == last_track(c)[1]
    IN  IF failed.result # Running THEN failed
        ELSE IF last_track(c) # None
        THEN Continue([c EXCEPT !.files[t[1]].tracks[t[2]].unknown =
                                    Append(@, line)])
        ELSE Continue([c EXCEPT !.unknown = Append(@, line)])

\* a `_` arm that passes the line over in either mode
OnBadLine_passes(c, isStrict) == [cue |-> c, result |-> Running]

\* the `_` arm: Ok(Token::None) and Err(_)
OnBadLine(c, isStrict) == fail_if_strict(c, isStrict, "bad line")

\* `match token`; a panic of the tokenizer unwinds through parse
Dispatch(c, token, isStrict) ==
    CASE token.res = "Panic" -> [cue |-> c, result |-> Panicked]
      [] token.res = "Ok" /\ token.tag = "Rem" -> OnRem(c, token.a, token.b)
      [] token.res = "Ok" /\ token.tag = "File" -> OnFile(c, token.a, token.b)
      [] token.res = "Ok" /\ token.tag = "Track" ->
           OnTrack(c, token.a, token.b, isStrict)
      [] token.res = "Ok" /\ token.tag = "Title" -> OnTitle(c, token.a)
      [] token.res = "Ok" /\ token.tag = "Performer" ->
           OnPerformer(c, token.a)
      [] token.res = "Ok" /\ token.tag = "Index" ->
           OnIndex(c, token.a, token.b, isStrict)
      [] token.res = "Ok" /\ token.tag = "Pregap" ->
           OnPregap(c, token.a, isStrict)
      [] token.res = "Ok" /\ token.tag = "Postgap" ->
           OnPostgap(c, token.a, isStrict)
      [] token.res = "Ok" /\ token.tag = "Catalog" -> OnCatalog(c, token.a)
      [] token.res = "Ok" /\ token.tag = "Unknown" ->
           OnUnknown(c, token.a, isStrict)
      [] OTHER -> OnBadLine(c, isStrict)

\* an item of buf_reader.lines(): Ok(line) or Err(io::Error)
LineOk(l) == [ok |-> TRUE, l |-> l]
LineErr == [ok |-> FALSE, l |-> <<>>]

\* the body of the `for` loop: an item that is not Ok(l) is passed over
LoopBody(c, item, isStrict) ==
    IF item.ok THEN Dispatch(c, tokenize_line(item.l), isStrict)
    ELSE Continue(c)

(***************************************************************************)
(* The lines a stream is made of.                                          *)
(***************************************************************************)
Words(ws) == join(ws, SP)

LineFile       == Words(<<KwFILE, <<"a">>, <<"W">>>>)
LineTrack      == Words(<<KwTRACK, <<"0","1">>, <<"A">>>>)
LineTitle      == Words(<<KwTITLE, <<QUOTE,"x",QUOTE>>>>)
LinePerformer  == Words(<<KwPERFORMER, <<"y">>>>)
LineRem        == Words(<<KwREM, <<"K">>, <<"v">>>>)
LineRemAgain   == Words(<<KwREM, <<"K">>, <<"w">>>>)
LineCatalog    == Words(<<KwCATALOG, <<"1">>>>)
LineIndex      == Words(<<KwINDEX, <<"0","1">>,
                          <<"0","4",":","1","7",":","5","2">>>>)
LineIndexBad   == Words(<<KwINDEX, <<"0","1">>, <<"0","4",":","1","7">>>>)
LinePregap     == Words(<<KwPREGAP, <<"0","0",":","0","1",":","0","0">>>>)
LinePregapBad  == Words(<<KwPREGAP, <<"x">>>>)
LinePostgap    == Words(<<KwPOSTGAP, <<"0","0",":","0","2",":","0","0">>>>)
LinePostgapBad == Words(<<KwPOSTGAP, <<"0","0",":","x","x",":","0","0">>>>)
LineUnknown    == Words(<<<<"F","O","O">>, <<"1">>>>)
LineBareFile   == KwFILE
LineBareTrack  == KwTRACK
LineEmpty      == <<>>
LineLoneQuote  == Words(<<KwTITLE, <<QUOTE>>>>)

\* second values for the single-valued fields
LineTitleAgain     == Words(<<KwTITLE, <<"z">>>>)
LinePerformerAgain == Words(<<KwPERFORMER, <<"q">>>>)
LineCatalogAgain   == Words(<<KwCATALOG, <<"2">>>>)
LinePregapAgain    == Words(<<KwPREGAP, <<"0","0",":","0","3",":","0","0">>>>)
LinePostgapAgain   == Words(<<KwPOSTGAP, <<"0","0",":","0","4",":","0","0">>>>)

\* the keywords of cue.rs's Command that tokenize_line has no arm for
KwCDTEXTFILE == <<"C","D","T","E","X","T","F","I","L","E">>
KwSONGWRITER == <<"S","O","N","G","W","R","I","T","E","R">>
KwFLAGS      == <<"F","L","A","G","S">>
KwISRC       == <<"I","S","R","C">>

LineCdTextFile == Words(<<KwCDTEXTFILE, <<"c">>>>)
LineSongwriter == Words(<<KwSONGWRITER, <<"s">>>>)
LineFlags      == Words(<<KwFLAGS, <<"D","C","P">>, <<"P","R","E">>>>)
LineIsrc       == Words(<<KwISRC, <<"A","1">>>>)

\* lines with nothing but whitespace, with whitespace around an unknown
\* command, and with a required argument missing
LineBlank       == <<SP, TAB>>
LineUnknownRaw  == <<SP, SP>> \o Words(<<<<"F","o","o">>, <<"1">>>>) \o <<TAB>>
LineBareRem     == KwREM
LineIndexNoTime == Words(<<KwINDEX, <<"0","1">>>>)

\* other spellings of the keywords
CharToLower(c) ==
    IF \E i \in 1..26 : Upper[i] = c
    THEN Lower[CHOOSE i \in 1..26 : Upper[i] = c]
    ELSE c

Lowered(s) == [i \in 1..Len(s) |-> CharToLower(s[i])]

Capitalized(s) ==
    [i \in 1..Len(s) |-> IF i = 1 THEN s[i] ELSE CharToLower(s[i])]

Alternating(s) ==
    [i \in 1..Len(s) |-> IF i % 2 = 0 THEN s[i] ELSE CharToLower(s[i])]

LineFileLower      == Words(<<Lowered(KwFILE), <<"a">>, <<"W">>>>)
LineFileAlt        == Words(<<Alternating(KwFILE), <<"a">>, <<"W">>>>)
LineTrackCap       == Words(<<Capitalized(KwTRACK), <<"0","1">>, <<"A">>>>)
LineTrackLower     == Words(<<Lowered(KwTRACK), <<"0","1">>, <<"A">>>>)
LineTitleLower     == Words(<<Lowered(KwTITLE), <<"a","B">>>>)
LinePerformerAlt   == Words(<<Alternating(KwPERFORMER), <<"C","d">>>>)
LineRemLower       == Words(<<Lowered(KwREM), <<"k">>, <<"V">>>>)
LineCatalogCap     == Words(<<Capitalized(KwCATALOG), <<"1">>>>)
LineIndexLower     == Words(<<Lowered(KwINDEX), <<"0","1">>,
                              <<"0","4",":","1","7",":","5","2">>>>)
LinePregapAlt      == Words(<<Alternating(KwPREGAP),
                              <<"0","0",":","0","1",":","0","0">>>>)
LinePostgapLower   == Words(<<Lowered(KwPOSTGAP),
                              <<"0","0",":","0","2",":","0","0">>>>)

\* FILE lines with a quoted path, with one argument, with a bare path of two
\* words and with a word after the format
LineFileQuoted    == Words(<<KwFILE, <<QUOTE,"a">>, <<"b",QUOTE>>, <<"W">>>>)
LineFileOneArg    == Words(<<KwFILE, <<"x">>>>)
LineFileBareWords == Words(<<KwFILE, <<"a">>, <<"b">>, <<"W">>>>)
LineFileTrailing  == Words(<<KwFILE, <<QUOTE,"a",QUOTE>>, <<"W">>, <<"z">>>>)

\* string arguments that are one quote, escaped or not
LineEscapedQuote  == Words(<<KwTITLE, <<BACKSLASH, QUOTE>>>>)
LineRemLoneQuote  == Words(<<KwREM, <<"K">>, <<QUOTE>>>>)

\* the line after n spaces
Indented(n, line) == [i \in 1..n |-> SP] \o line

\* A stream draws its items from one of these families.
Vocabulary ==
    [structure  |-> {LineOk(LineFile), LineOk(LineTrack), LineOk(LineTitle),
                     LineOk(LinePerformer), LineOk(LineRem),
                     LineOk(LineRemAgain), LineOk(LineIndex),
                     LineOk(LineCatalog)},
     timestamps |-> {LineOk(LineFile), LineOk(LineTrack), LineOk(LineIndex),
                     LineOk(LineIndexBad), LineOk(LinePregap),
                     LineOk(LinePregapBad), LineOk(LinePostgap),
                     LineOk(LinePostgapBad)},
     badlines   |-> {LineOk(LineFile), LineOk(LineTrack), LineOk(LineTitle),
                     LineOk(LineUnknown), LineOk(LineBareFile),
                     LineOk(LineBareTrack), LineOk(LineEmpty),
                     LineOk(LineLoneQuote), LineErr},
     gaps       |-> {LineOk(LineFile), LineOk(LineTrack), LineOk(LinePregap),
                     LineOk(LinePregapAgain), LineOk(LinePregapBad),
                     LineOk(LinePostgap), LineOk(LinePostgapAgain),
                     LineOk(LinePostgapBad)},
     discfields |-> {LineOk(LineFile), LineOk(LineTrack), LineOk(LineTitle),
                     LineOk(LineTitleAgain), LineOk(LinePerformer),
                     LineOk(LinePerformerAgain), LineOk(LineCatalog),
                     LineOk(LineCatalogAgain)},
     keywords   |-> {LineOk(LineFile), LineOk(LineTrack), LineOk(LineTitle),
                     LineOk(LineCatalog), LineOk(LineCdTextFile),
                     LineOk(LineSongwriter), LineOk(LineFlags),
                     LineOk(LineIsrc)},
     blanks     |-> {LineOk(LineFile), LineOk(LineTrack), LineOk(LineEmpty),
                     LineOk(LineBlank), LineOk(LineUnknown),
                     LineOk(LineUnknownRaw), LineOk(LineBareRem),
                     LineOk(LineBareTrack), LineOk(LineIndexNoTime)},
     spellings  |-> {LineOk(LineFileLower), LineOk(LineTrackCap),
                     LineOk(LineTitleLower), LineOk(LineRemLower),
                     LineOk(LineIndexLower)},
     respelled  |-> {LineOk(LineFileAlt), LineOk(LineTrackLower),
                     LineOk(LinePerformerAlt), LineOk(LineCatalogCap),
                     LineOk(LinePregapAlt), LineOk(LinePostgapLower)},
     files      |-> {LineOk(LineFile), LineOk(LineFileQuoted),
                     LineOk(LineFileOneArg), LineOk(LineFileBareWords),
                     LineOk(LineFileTrailing), LineOk(LineTrack)},
     quotes     |-> {LineOk(LineFile), LineOk(LineTrack), LineOk(LineTitle),
                     LineOk(LineLoneQuote), LineOk(LineEscapedQuote),
                     LineOk(LineRemLoneQuote)},
     indented   |-> {LineOk(LineFile), LineOk(Indented(1, LineFile)),
                     LineOk(Indented(2, LineTrack)),
                     LineOk(Indented(4, LineRem)), LineOk(LineRemAgain),
                     LineOk(<<TAB>> \o LineTitle), LineOk(LineUnknownRaw)},
     discards   |-> {LineOk(LineFile), LineOk(LineTrack), LineOk(LineIndex),
                     LineOk(LinePregap), LineOk(LinePregapBad),
                     LineOk(LineEmpty), LineOk(LineBareRem)}]

\* the families each specification draws from
Families == {"structure", "timestamps", "badlines"}
FieldFamilies == {"gaps", "discfields"}
WordFamilies == {"keywords", "blanks"}
SpellingFamilies == {"spellings", "respelled"}
StringFamilies == {"files", "quotes"}
IndentFamilies == {"indented"}
DiscardFamilies == {"discards"}

(***************************************************************************)
(* The state machine: one run of parse(buf_reader, strict).                *)
(***************************************************************************)
VARIABLES
    strict,     \* the `strict` argument
    family,     \* the family of lines the stream draws from
    consumed,   \* the items buf_reader.lines() has yielded so far
    cue,        \* the local `cue`
    result,     \* Running inside the loop, then what parse returned
    input,      \* the argument of a call of a helper of util.rs
    output      \* None before the call, then Some(what the helper returned)

vars == <<strict, family, consumed, cue, result, input, output>>

\* no helper is called on its own
NoCall == input = <<>> /\ output = None

Init ==
    /\ strict \in BOOLEAN
    /\ family \in Families
    /\ consumed = <<>>
    /\ cue = NewCue
    /\ result = Running
    /\ NoCall

\* one iteration of `for (i, line) in buf_reader.lines().enumerate()`
ReadLine(item) ==
    /\ result = Running
    /\ Len(consumed) < MaxLines
    /\ consumed' = Append(consumed, item)
    /\ LET out == LoopBody(cue, item, strict)
       IN  /\ cue' = out.cue
           /\ result' = out.result
    /\ UNCHANGED <<strict, family, input, output>>

\* the stream is exhausted: `Ok(cue)`
EndOfStream ==
    /\ result = Running
    /\ result' = OkResult
    /\ UNCHANGED <<strict, family, consumed, cue, input, output>>

Next ==
    \/ \E item \in Vocabulary[family] : ReadLine(item)
    \/ EndOfStream

Spec == Init /\ [][Next]_vars

\* the same run of parse over the families `families`
InitIn(families) ==
    /\ strict \in BOOLEAN
    /\ family \in families
    /\ consumed = <<>>
    /\ cue = NewCue
    /\ result = Running
    /\ NoCall

InitFields == InitIn(FieldFamilies)
SpecFields == InitFields /\ [][Next]_vars

InitWords == InitIn(WordFamilies)
SpecWords == InitWords /\ [][Next]_vars

InitSpellings == InitIn(SpellingFamilies)
SpecSpellings == InitSpellings /\ [][Next]_vars

InitStrings == InitIn(StringFamilies)
SpecStrings == InitStrings /\ [][Next]_vars

InitIndent == InitIn(IndentFamilies)
SpecIndent == InitIndent /\ [][Next]_vars

InitDiscards == InitIn(DiscardFamilies)
SpecDiscards == InitDiscards /\ [][Next]_vars

(***************************************************************************)
(* A call of timestamp_to_duration on its own.                             *)
(***************************************************************************)
\* the largest value of a two-digit field
MaxField == 99

RECURSIVE Decimal(_)
Decimal(n) ==
    IF n < 10 THEN <<Digits[n + 1]>>
    ELSE Decimal(n \div 10) \o <<Digits[(n % 10) + 1]>>

\* n as a field of a timestamp, at least two digits wide
TwoDigits(n) == IF n < 10 THEN <<"0">> \o Decimal(n) ELSE Decimal(n)

Stamp(mm, ss, ff) ==
    join(<<TwoDigits(mm), TwoDigits(ss), TwoDigits(ff)>>, COLON)

\* the minutes and seconds the timestamps are drawn with
SampleFields == {0, 1, 4, 17, 59, 60, 75, MaxField}

Stamps ==
    {Stamp(mm, ss, ff) : mm \in SampleFields, ss \in SampleFields,
                         ff \in 0..MaxField}

\* fields of the right and of the wrong shape
ShapedFields ==
    {<<"0","0">>, <<"1","7">>, <<"0">>, <<"0","0","0">>, <<>>, <<"+","0">>,
     <<"-","5">>, <<"x","0">>, <<SP,"0">>, <<"0",SP>>, <<"5",".","0">>,
     <<"1","e","1">>}

Shaped ==
    {join(<<a, b, c>>, COLON) : a \in ShapedFields, b \in ShapedFields,
                                c \in ShapedFields}

\* too few and too many fields, other separators, whitespace around
OtherShapes ==
    LET f == <<"0","0">>
    IN  {<<>>, f, join(<<f, f>>, COLON), join(<<f, f, f, f>>, COLON),
         join(<<f, f, f>>, "-"), join(<<f, f, f>>, SP), f \o f \o f,
         join(<<f, f, f>>, COLON) \o <<COLON>>,
         <<SP>> \o join(<<f, f, f>>, COLON),
         join(<<f, f, f>>, COLON) \o <<SP>>}

TimestampInputs == Stamps \cup Shaped \cup OtherShapes

InitTimestamp ==
    /\ input \in TimestampInputs
    /\ output = None
    /\ strict = FALSE
    /\ family = "timestamps"
    /\ consumed = <<>>
    /\ cue = NewCue
    /\ result = Running

\* timestamp_to_duration(input)
CallTimestampToDuration ==
    /\ output = None
    /\ output' = Some(timestamp_to_duration(input))
    /\ UNCHANGED <<strict, family, consumed, cue, result, input>>

NextTimestamp == CallTimestampToDuration

SpecTimestamp == InitTimestamp /\ [][NextTimestamp]_vars

(***************************************************************************)
(* A call of unescape_quotes on its own.                                   *)
(***************************************************************************)
\* the longest string unescape_quotes is called on
MaxLen == 5

\* a letter, the quote and the backslash
StringAlphabet == {"a", QUOTE, BACKSLASH}

UnescapeInputs == UNION {[1..n -> StringAlphabet] : n \in 0..MaxLen}

InitUnescape ==
    /\ input \in UnescapeInputs
    /\ output = None
    /\ strict = FALSE
    /\ family = "quotes"
    /\ consumed = <<>>
    /\ cue = NewCue
    /\ result = Running

\* unescape_quotes(input)
CallUnescapeQuotes ==
    /\ output = None
    /\ output' = Some(unescape_quotes(input))
    /\ UNCHANGED <<strict, family, consumed, cue, result, input>>

NextUnescape == CallUnescapeQuotes

SpecUnescape == InitUnescape /\ [][NextUnescape]_vars

\* parse as a function of the whole stream
RECURSIVE RunLoop(_, _, _)
RunLoop(c, items, isStrict) ==
    IF items = <<>> THEN [cue |-> c, result |-> OkResult]
    ELSE LET out == LoopBody(c, Head(items), isStrict)
         IN  IF out.result = Running
             THEN RunLoop(out.cue, Tail(items), isStrict)
             ELSE out

parse(items, isStrict) == RunLoop(NewCue, items, isStrict)

TypeOK ==
    /\ strict \in BOOLEAN
    /\ result.tag \in {"Running", "Ok", "Err", "Panic"}
    /\ Len(consumed) <= MaxLines

(***************************************************************************)
(* Reading the stream back: what each consumed item is, and the context    *)
(* it was read in, told from the items before it and not from `cue`.       *)
(***************************************************************************)
NoToken == [res |-> "Io", tag |-> "", a |-> <<>>, b |-> <<>>, err |-> ""]

TokenOf(item) == IF item.ok THEN tokenize_line(item.l) ELSE NoToken

\* the tokens of the items of h, position by position
Tokens(h) == [i \in 1..Len(h) |-> TokenOf(h[i])]

IsTok(tok, tag) == tok.res = "Ok" /\ tok.tag = tag

IsToken(item, tag) == IsTok(TokenOf(item), tag)

Prefix(tk, i) == SubSeq(tk, 1, i - 1)

SetMax(S) == IF S = {} THEN 0 ELSE CHOOSE m \in S : \A n \in S : n <= m

\* the positions of the FILE lines
FilePos(tk) == {i \in 1..Len(tk) : IsTok(tk[i], "File")}

\* the position of the newest FILE line, 0 if there is none
CurFilePos(tk) == SetMax(FilePos(tk))

\* the positions of the TRACK lines read when a file existed
TrackPos(tk) ==
    {i \in 1..Len(tk) :
        IsTok(tk[i], "Track") /\ \E j \in 1..(i - 1) : IsTok(tk[j], "File")}

\* the position of the newest accepted TRACK line of the newest file, 0 if
\* that file has none
CurTrackPos(tk) == SetMax({i \in TrackPos(tk) : i > CurFilePos(tk)})

\* the position of the newest accepted TRACK line of any file
AnyTrackPos(tk) == SetMax(TrackPos(tk))

BadTimestamp(ts) == ~timestamp_to_duration(ts).ok

\* the item at position i is one of the offences strict mode names: the
\* reason the failure should carry, "" if the item is no such offence
Offence(tk, i) ==
    LET tok      == tk[i]
        noFile   == CurFilePos(Prefix(tk, i)) = 0
        noTrack  == CurTrackPos(Prefix(tk, i)) = 0
    IN  CASE tok.res # "Ok" -> ""
          [] tok.tag = "Unknown" -> "unknown token"
          [] tok.tag = "Track" /\ noFile -> "TRACK assigned to no FILE"
          [] tok.tag = "Index" /\ noTrack -> "INDEX assigned to no track"
          [] tok.tag = "Index" /\ BadTimestamp(tok.b) -> "bad INDEX timestamp"
          [] tok.tag = "Pregap" /\ noTrack -> "PREGAP assigned to no track"
          [] tok.tag = "Pregap" /\ BadTimestamp(tok.a) ->
               "bad PREGAP timestamp"
          [] tok.tag = "Postgap" /\ noTrack -> "POSTGAP assigned to no track"
          [] tok.tag = "Postgap" /\ BadTimestamp(tok.a) ->
               "bad POSTGAP timestamp"
          [] OTHER -> ""

\* the item at position i is a line the tokenizer rejects or finds empty
BadLine(tk, i) == tk[i].res = "Err" \/ IsTok(tk[i], "None")

(***************************************************************************)
(* C1.  In strict mode parse stops at the first unrecognized command,      *)
(* orphan command or malformed timestamp, and the Parse failure it         *)
(* returns names the reason of that very line.                             *)
(***************************************************************************)
C1_StrictStopsNamingTheReason ==
    strict =>
        LET tk == Tokens(consumed)
        IN  \A i \in 1..Len(tk) :
                Offence(tk, i) # "" =>
                    /\ i = Len(tk)
                    /\ result = ErrParse("strict mode failure: "
                                            \o Offence(tk, i))

(***************************************************************************)
(* C2.  In lenient mode parse never fails and never crashes: it is inside  *)
(* the loop or has returned the disc record.                               *)
(***************************************************************************)
C2_LenientAlwaysReturnsDisc ==
    ~strict => result \in {Running, OkResult}

(***************************************************************************)
(* C3.  As claimed: the single line `FILE` makes parse return a parse      *)
(* failure in strict and in lenient mode.                                  *)
(***************************************************************************)
C3_BareFileFailsInBothModes ==
    (consumed = <<LineOk(LineBareFile)>> /\ result # Running) =>
        (result.tag = "Err" /\ result.kind = "Parse")

(***************************************************************************)
(* C3, amended.  The single line `FILE` makes strict parse return a parse  *)
(* failure; lenient parse passes the line over and returns the empty disc. *)
(***************************************************************************)
C3_BareFileFailsOnlyWhenStrict ==
    consumed = <<LineOk(LineBareFile)>> =>
        IF strict
        THEN result.tag = "Err" /\ result.kind = "Parse"
        ELSE result \in {Running, OkResult} /\ cue = NewCue

C3_Witness ==
    /\ consumed = <<LineOk(LineBareFile)>>
    /\ ~strict
    /\ result = OkResult

(***************************************************************************)
(* C4.  When strict parsing succeeds on an input, lenient parsing of the   *)
(* same input succeeds with an equal record, whose unknown lists are all   *)
(* empty, and passes over none of the lines.                               *)
(***************************************************************************)
NoUnknown(c) ==
    /\ c.unknown = <<>>
    /\ \A f \in 1..Len(c.files) :
           \A t \in 1..Len(c.files[f].tracks) :
               c.files[f].tracks[t].unknown = <<>>

\* lenient mode discards the line at position i
LenientDrops(tk, i) ==
    \/ BadLine(tk, i)
    \/ Offence(tk, i) # "" /\ ~IsTok(tk[i], "Unknown")

C4_StrictSuccessIsLenientSuccess ==
    (strict /\ result = OkResult) =>
        LET lenient == parse(consumed, FALSE)
            tk      == Tokens(consumed)
        IN  /\ lenient.result = OkResult
            /\ lenient.cue = cue
            /\ NoUnknown(lenient.cue)
            /\ \A i \in 1..Len(tk) : ~LenientDrops(tk, i)

C4_Witness ==
    /\ strict
    /\ result = OkResult
    /\ Len(consumed) >= 3
    /\ HasTrack(cue)

(***************************************************************************)
(* C5.  The files of the disc are the FILE lines in input order; the       *)
(* tracks of a file are the TRACK lines accepted while it was the newest   *)
(* file; the indices of a track are the INDEX lines accepted while it was  *)
(* the current track.  Equal lines give equal entries, one for each.       *)
(***************************************************************************)
RECURSIVE Ascending(_)
Ascending(S) ==
    IF S = {} THEN <<>>
    ELSE LET m == CHOOSE x \in S : \A y \in S : x <= y
         IN  <<m>> \o Ascending(S \ {m})

\* the first position after p that is in S, one past the end if none
NextIn(tk, S, p) ==
    LET later == {q \in S : q > p}
    IN  IF later = {} THEN Len(tk) + 1
        ELSE CHOOSE x \in later : \A y \in later : x <= y

\* the positions of the TRACK lines under the FILE line at p, ascending
TracksUnder(tk, p) ==
    Ascending({q \in TrackPos(tk) : p < q /\ q < NextIn(tk, FilePos(tk), p)})

\* the positions of the INDEX lines with a valid timestamp under the TRACK
\* line at q, ascending
IndicesUnder(tk, q) ==
    Ascending({r \in 1..Len(tk) :
                  /\ IsTok(tk[r], "Index")
                  /\ ~BadTimestamp(tk[r].b)
                  /\ q < r
                  /\ r < NextIn(tk, FilePos(tk) \cup TrackPos(tk), q)})

IndexEntry(tok) == <<tok.a, timestamp_to_duration(tok.b).duration>>

C5_InputOrderIsKept ==
    LET tk == Tokens(consumed)
        fp == Ascending(FilePos(tk))
    IN  /\ Len(cue.files) = Len(fp)
        /\ \A k \in 1..Len(fp) :
             LET file == cue.files[k]
                 tp   == TracksUnder(tk, fp[k])
             IN  /\ file.file = tk[fp[k]].a
                 /\ file.format = tk[fp[k]].b
                 /\ Len(file.tracks) = Len(tp)
                 /\ \A j \in 1..Len(tp) :
                      LET track == file.tracks[j]
                          ip    == IndicesUnder(tk, tp[j])
                      IN  /\ track.no = tk[tp[j]].a
                          /\ track.format = tk[tp[j]].b
                          /\ track.indices =
                                 [m \in 1..Len(ip) |-> IndexEntry(tk[ip[m]])]

C5_Witness ==
    /\ Len(cue.files) = 1
    /\ Len(cue.files[1].tracks) = 2
    /\ Len(cue.files[1].tracks[1].indices) = 1
    /\ cue.files[1].tracks[1].no = cue.files[1].tracks[2].no

(***************************************************************************)
(* Steps of the loop, for the claims about what one line does.             *)
(***************************************************************************)
\* this step reads an item
Reads == consumed' # consumed

\* the item this step reads, and its token
ItemRead == consumed'[Len(consumed')]
TokenRead == TokenOf(ItemRead)

\* this step reads a line that tokenizes to `tag`
ReadsToken(tag) == Reads /\ IsToken(ItemRead, tag)

\* before this step a track was current / a file was current, as told by
\* the stream
InTrack == CurTrackPos(Tokens(consumed)) # 0
InFile == CurFilePos(Tokens(consumed)) # 0

\* before this step some file had a track
TrackOpened == AnyTrackPos(Tokens(consumed)) # 0

\* the reason strict mode should give for the item this step reads
OffenceRead == Offence(Tokens(consumed'), Len(consumed'))

\* the current track of the record c
CurF(c) == Len(c.files)
CurT(c) == Len(c.files[Len(c.files)].tracks)

\* the newest track of the whole record, whatever file it is in
NewestTrackOfDisc(c) ==
    LET f == SetMax({x \in 1..Len(c.files) : Len(c.files[x].tracks) > 0})
    IN  c.files[f].tracks[Len(c.files[f].tracks)]

StrictFailure(reason) == ErrParse("strict mode failure: " \o reason)

(***************************************************************************)
(* C6.  As claimed: a TITLE or PERFORMER line is written to the most       *)
(* recently opened track if any TRACK has been accepted so far, and to the *)
(* disc only if no track has been opened.                                  *)
(***************************************************************************)
C6_TitleGoesToNewestTrackOfDisc ==
    [][ /\ ReadsToken("Title") =>
             IF TrackOpened
             THEN /\ NewestTrackOfDisc(cue').title = Some(TokenRead.a)
                  /\ cue'.title = cue.title
             ELSE cue'.title = Some(TokenRead.a)
        /\ ReadsToken("Performer") =>
             IF TrackOpened
             THEN /\ NewestTrackOfDisc(cue').performer = Some(TokenRead.a)
                  /\ cue'.performer = cue.performer
             ELSE cue'.performer = Some(TokenRead.a)
      ]_vars

(***************************************************************************)
(* C6, amended.  A TITLE or PERFORMER line is written to the current       *)
(* track, the last track of the newest file, if that file has a track, and *)
(* to the disc otherwise, also when an older file has tracks; it changes   *)
(* nothing else.                                                           *)
(***************************************************************************)
C6_TitleGoesToCurrentTrackElseDisc ==
    [][ /\ ReadsToken("Title") =>
             /\ result' = Running
             /\ cue' = IF InTrack
                       THEN [cue EXCEPT
                                !.files[CurF(cue)].tracks[CurT(cue)].title =
                                    Some(TokenRead.a)]
                       ELSE [cue EXCEPT !.title = Some(TokenRead.a)]
        /\ ReadsToken("Performer") =>
             /\ result' = Running
             /\ cue' = IF InTrack
                       THEN [cue EXCEPT
                                !.files[CurF(cue)].tracks[CurT(cue)].performer =
                                    Some(TokenRead.a)]
                       ELSE [cue EXCEPT !.performer = Some(TokenRead.a)]
      ]_vars

\* FILE, TRACK, FILE, TITLE: the title is the disc's
C6_Witness ==
    /\ Len(consumed) = 4
    /\ IsToken(consumed[4], "Title")
    /\ Len(cue.files) = 2
    /\ Len(cue.files[1].tracks) = 1
    /\ cue.files[1].tracks[1].title = None
    /\ cue.files[2].tracks = <<>>
    /\ cue.title = Some(TokenOf(consumed[4]).a)

(***************************************************************************)
(* C7.  A REM line with a key is appended to exactly one comment list:     *)
(* the current track's, else the current file's, else the disc's.  It goes *)
(* to the end and replaces no earlier comment, same key or not.            *)
(***************************************************************************)
C7_RemIsAppendedToNearestContext ==
    [][ ReadsToken("Rem") =>
          LET comment == <<TokenRead.a, TokenRead.b>>
          IN  /\ result' = Running
              /\ cue' =
                   IF InTrack
                   THEN [cue EXCEPT
                            !.files[CurF(cue)].tracks[CurT(cue)].comments =
                                @ \o <<comment>>]
                   ELSE IF InFile
                   THEN [cue EXCEPT !.files[CurF(cue)].comments =
                                        @ \o <<comment>>]
                   ELSE [cue EXCEPT !.comments = @ \o <<comment>>]
      ]_vars

\* two comments under one key on a track
C7_Witness ==
    /\ HasTrack(cue)
    /\ Len(CurrentTrack(cue).comments) = 2
    /\ CurrentTrack(cue).comments[1][1] = CurrentTrack(cue).comments[2][1]
    /\ CurrentTrack(cue).comments[1] # CurrentTrack(cue).comments[2]
    /\ cue.comments = <<>>

(***************************************************************************)
(* C8.  Every FILE line that tokenizes is accepted, in any context and in  *)
(* either mode, and appends a file with no track.  From then until the     *)
(* next accepted TRACK there is no current track, also when older files    *)
(* have tracks: TITLE and PERFORMER write the disc, REM goes to the new    *)
(* file's comments, INDEX, PREGAP and POSTGAP are orphans.                 *)
(***************************************************************************)
C8_FileOpensAndClearsCurrentTrack ==
    [][ /\ ReadsToken("File") =>
             /\ result' = Running
             /\ cue' = [cue EXCEPT !.files =
                          @ \o <<NewCueFile(TokenRead.a, TokenRead.b)>>]
             /\ cue'.files[Len(cue'.files)].tracks = <<>>
        /\ (Reads /\ InFile /\ ~InTrack) =>
             /\ IsToken(ItemRead, "Title") =>
                  cue' = [cue EXCEPT !.title = Some(TokenRead.a)]
             /\ IsToken(ItemRead, "Performer") =>
                  cue' = [cue EXCEPT !.performer = Some(TokenRead.a)]
             /\ IsToken(ItemRead, "Rem") =>
                  cue' = [cue EXCEPT !.files[CurF(cue)].comments =
                             @ \o <<<<TokenRead.a, TokenRead.b>>>>]
             /\ \A tag \in {"Index", "Pregap", "Postgap"} :
                  IsToken(ItemRead, tag) =>
                      /\ cue' = cue
                      /\ result' =
                           IF strict
                           THEN StrictFailure(OffenceRead)
                           ELSE Running
                      /\ OffenceRead \in
                             {"INDEX assigned to no track",
                              "PREGAP assigned to no track",
                              "POSTGAP assigned to no track"}
      ]_vars

\* FILE, TRACK, FILE, REM: the comment is the second file's
C8_Witness ==
    /\ Len(cue.files) = 2
    /\ Len(cue.files[1].tracks) = 1
    /\ cue.files[1].tracks[1].comments = <<>>
    /\ cue.files[2].tracks = <<>>
    /\ Len(cue.files[2].comments) = 1

(***************************************************************************)
(* C9.  A TRACK line read when the disc has no file is attached nowhere:   *)
(* strict parse returns the failure "TRACK assigned to no FILE", lenient   *)
(* parse leaves the record, and its empty file list, as it was.  A TRACK   *)
(* line read when a file exists is appended to the last file and becomes   *)
(* the current track.                                                      *)
(***************************************************************************)
C9_TrackNeedsAFile ==
    [][ ReadsToken("Track") =>
          IF ~InFile
          THEN /\ cue' = cue
               /\ cue'.files = <<>>
               /\ result' = IF strict
                            THEN StrictFailure("TRACK assigned to no FILE")
                            ELSE Running
          ELSE /\ result' = Running
               /\ cue' = [cue EXCEPT !.files[CurF(cue)].tracks =
                            @ \o <<NewTrack(TokenRead.a, TokenRead.b)>>]
               /\ CurrentTrack(cue') = NewTrack(TokenRead.a, TokenRead.b)
      ]_vars

\* a lenient run that met a TRACK line first and returned the empty disc
C9_Witness ==
    /\ ~strict
    /\ Len(consumed) >= 1
    /\ IsToken(consumed[1], "Track")
    /\ result = OkResult
    /\ cue = NewCue

(***************************************************************************)
(* C10.  An INDEX line appends (number, duration) to the current track's   *)
(* indices only when there is a current track and the timestamp converts.  *)
(* Otherwise lenient parse leaves the whole record unchanged and strict    *)
(* parse fails, with one reason for "no track" and another for "bad        *)
(* timestamp".                                                             *)
(***************************************************************************)
C10_IndexNeedsTrackAndTimestamp ==
    [][ ReadsToken("Index") =>
          IF InTrack /\ ~BadTimestamp(TokenRead.b)
          THEN /\ result' = Running
               /\ cue' = [cue EXCEPT
                            !.files[CurF(cue)].tracks[CurT(cue)].indices =
                                @ \o <<IndexEntry(TokenRead)>>]
          ELSE /\ cue' = cue
               /\ result' =
                    IF ~strict THEN Running
                    ELSE IF ~InTrack
                    THEN StrictFailure("INDEX assigned to no track")
                    ELSE StrictFailure("bad INDEX timestamp")
      ]_vars

\* a lenient run that dropped an INDEX line with a bad timestamp although
\* a track was current
C10_Witness ==
    /\ ~strict
    /\ Len(consumed) >= 3
    /\ IsToken(consumed[Len(consumed)], "Index")
    /\ BadTimestamp(TokenOf(consumed[Len(consumed)]).b)
    /\ CurTrackPos(Tokens(consumed)) # 0
    /\ CurrentTrack(cue).indices = <<>>

(***************************************************************************)
(* C11.  A PREGAP (POSTGAP) line with a timestamp that converts, read when *)
(* a track is current, sets that track's pregap (postgap) to the converted *)
(* duration and changes no other field.  With no current track or a        *)
(* timestamp that does not convert, lenient parse leaves the record as it  *)
(* was and strict parse fails.                                             *)
(***************************************************************************)
GapDuration(tok) == timestamp_to_duration(tok.a).duration

ParseFailure == result'.tag = "Err" /\ result'.kind = "Parse"

C11_GapNeedsTrackAndTimestamp ==
    [][ /\ ReadsToken("Pregap") =>
             IF InTrack /\ ~BadTimestamp(TokenRead.a)
             THEN /\ result' = Running
                  /\ cue' = [cue EXCEPT
                               !.files[CurF(cue)].tracks[CurT(cue)].pregap =
                                   Some(GapDuration(TokenRead))]
             ELSE /\ cue' = cue
                  /\ IF strict THEN ParseFailure ELSE result' = Running
        /\ ReadsToken("Postgap") =>
             IF InTrack /\ ~BadTimestamp(TokenRead.a)
             THEN /\ result' = Running
                  /\ cue' = [cue EXCEPT
                               !.files[CurF(cue)].tracks[CurT(cue)].postgap =
                                   Some(GapDuration(TokenRead))]
             ELSE /\ cue' = cue
                  /\ IF strict THEN ParseFailure ELSE result' = Running
      ]_vars

\* FILE, TRACK, POSTGAP, then a POSTGAP that does not convert: the postgap
\* of the track is still the first one, its pregap was never set
C11_Witness ==
    /\ ~strict
    /\ Len(consumed) = 4
    /\ IsToken(consumed[3], "Postgap")
    /\ IsToken(consumed[4], "Postgap")
    /\ BadTimestamp(TokenOf(consumed[4]).a)
    /\ HasTrack(cue)
    /\ CurrentTrack(cue).postgap = Some(GapDuration(TokenOf(consumed[3])))
    /\ CurrentTrack(cue).pregap = None

(***************************************************************************)
(* C12.  A line whose first token is none of the keywords the tokenizer    *)
(* recognizes makes strict parse fail.  Lenient parse appends the line as  *)
(* it was read, whitespace included, to the unknown list of the current    *)
(* track if there is one and to the disc's unknown list otherwise, and     *)
(* changes nothing else.                                                   *)
(***************************************************************************)
Recognized ==
    {KwREM, KwCATALOG, KwTITLE, KwFILE, KwPERFORMER, KwTRACK, KwPREGAP,
     KwPOSTGAP, KwINDEX}

\* the first space-separated word of the line, after trimming
FirstToken(line) == Head(split(trim(line), SP))

\* this step reads a line that starts with a word that is no keyword
ReadsUnrecognized ==
    /\ Reads
    /\ ItemRead.ok
    /\ FirstToken(ItemRead.l) # <<>>
    /\ to_uppercase(FirstToken(ItemRead.l)) \notin Recognized

C12_UnknownLineIsKeptVerbatim ==
    [][ ReadsUnrecognized =>
          IF strict
          THEN ParseFailure
          ELSE /\ result' = Running
               /\ cue' =
                    IF InTrack
                    THEN [cue EXCEPT
                             !.files[CurF(cue)].tracks[CurT(cue)].unknown =
                                 @ \o <<ItemRead.l>>]
                    ELSE [cue EXCEPT !.unknown = @ \o <<ItemRead.l>>]
      ]_vars

\* the indented line was read before any file and again under a track
C12_Witness ==
    /\ ~strict
    /\ cue.unknown = <<LineUnknownRaw>>
    /\ HasTrack(cue)
    /\ CurrentTrack(cue).unknown = <<LineUnknownRaw>>
    /\ trim(LineUnknownRaw) # LineUnknownRaw

(***************************************************************************)
(* C13.  A line that is empty after trimming, wherever it is read, leaves  *)
(* the record unchanged in lenient mode and makes strict parse fail.       *)
(***************************************************************************)
ReadsBlank == Reads /\ ItemRead.ok /\ trim(ItemRead.l) = <<>>

C13_BlankLineIsSkippedOrFails ==
    [][ ReadsBlank =>
          IF strict
          THEN ParseFailure
          ELSE cue' = cue /\ result' = Running
      ]_vars

\* a blank line before any file and another under a track: the record is
\* that of FILE, TRACK alone
C13_Witness ==
    /\ ~strict
    /\ Len(consumed) = 4
    /\ consumed[1] = LineOk(LineEmpty)
    /\ consumed[4] = LineOk(LineBlank)
    /\ HasTrack(cue)
    /\ cue = parse(SubSeq(consumed, 2, 3), FALSE).cue
    /\ result = OkResult

(***************************************************************************)
(* C14.  For every mm, ss, ff in 0..99 the conversion of mm:ss:ff succeeds *)
(* and yields mm*60 + ss + floor(ff/75) seconds and                        *)
(* trunc((ff mod 75) * 10^9 / 75) nanoseconds; mm and ss are not clamped.  *)
(***************************************************************************)
\* two ASCII digits, ':', two digits, ':', two digits
WellFormed(s) ==
    /\ Len(s) = 8
    /\ \A i \in {1, 2, 4, 5, 7, 8} : IsDigit(s[i])
    /\ s[3] = COLON
    /\ s[6] = COLON

\* the value of the two-digit field that starts at position i
FieldAt(s, i) == 10 * DigitVal(s[i]) + DigitVal(s[i + 1])

\* trunc(r * 10^9 / 75) = r * 13333333 + floor(r / 3), for r in 0..74
ExactNanos(ff) == (ff % 75) * 13333333 + (ff % 75) \div 3

C14_TimestampFormula ==
    (output # None /\ WellFormed(input)) =>
        LET mm == FieldAt(input, 1)
            ss == FieldAt(input, 4)
            ff == FieldAt(input, 7)
        IN  output[1] =
                TsOk(Duration(mm * 60 + ss + ff \div 75, ExactNanos(ff)))

(***************************************************************************)
(* C15.  The conversion fails for every string that is not exactly two     *)
(* ASCII digits, ':', two digits, ':', two digits.                         *)
(***************************************************************************)
C15_OnlyWellFormedConverts ==
    (output # None /\ ~WellFormed(input)) => ~output[1].ok

(***************************************************************************)
(* C16.  Single-valued fields are last-wins in their context: the disc's   *)
(* title, performer and catalog and each track's title, performer, pregap  *)
(* and postgap hold the value of the last accepted line that targeted that *)
(* field in that context, and None if there was no such line.              *)
(***************************************************************************)
\* the context line i was read in: the position of the TRACK line that was
\* current, 0 if no track was current
ContextAt(tk, i) == CurTrackPos(Prefix(tk, i))

\* the last line with the tag `tag` read in the context q, 0 if none
LastIn(tk, tag, q) ==
    SetMax({i \in 1..Len(tk) : IsTok(tk[i], tag) /\ ContextAt(tk, i) = q})

\* the last accepted PREGAP or POSTGAP line of the track opened at q
LastGapIn(tk, tag, q) ==
    SetMax({i \in 1..Len(tk) :
               /\ IsTok(tk[i], tag)
               /\ ContextAt(tk, i) = q
               /\ ~BadTimestamp(tk[i].a)})

\* the last CATALOG line, in whatever context
LastCatalog(tk) == SetMax({i \in 1..Len(tk) : IsTok(tk[i], "Catalog")})

StringOf(tk, i) == IF i = 0 THEN None ELSE Some(tk[i].a)

DurationOf(tk, i) == IF i = 0 THEN None ELSE Some(GapDuration(tk[i]))

C16_SingleValuedFieldsAreLastWins ==
    LET tk == Tokens(consumed)
        fp == Ascending(FilePos(tk))
    IN  /\ cue.title = StringOf(tk, LastIn(tk, "Title", 0))
        /\ cue.performer = StringOf(tk, LastIn(tk, "Performer", 0))
        /\ cue.catalog = StringOf(tk, LastCatalog(tk))
        /\ \A k \in 1..Len(fp) :
             LET tp == TracksUnder(tk, fp[k])
             IN  \A j \in 1..Len(tp) :
                     LET track == cue.files[k].tracks[j]
                         q     == tp[j]
                     IN  /\ track.title =
                                StringOf(tk, LastIn(tk, "Title", q))
                         /\ track.performer =
                                StringOf(tk, LastIn(tk, "Performer", q))
                         /\ track.pregap =
                                DurationOf(tk, LastGapIn(tk, "Pregap", q))
                         /\ track.postgap =
                                DurationOf(tk, LastGapIn(tk, "Postgap", q))

\* FILE, TRACK and two PERFORMER lines with different values: the track has
\* the second, the disc has none
C16_Witness ==
    /\ Len(consumed) = 4
    /\ IsToken(consumed[3], "Performer")
    /\ IsToken(consumed[4], "Performer")
    /\ TokenOf(consumed[3]).a # TokenOf(consumed[4]).a
    /\ HasTrack(cue)
    /\ CurrentTrack(cue).performer = Some(TokenOf(consumed[4]).a)
    /\ cue.performer = None

(***************************************************************************)
(* C17.  In strict mode a FLAGS or an ISRC line read when a track is       *)
(* current is accepted, and one read when no track is current is a         *)
(* strict-mode violation.                                                  *)
(***************************************************************************)
\* this step reads a line whose first word spells one of `keywords`
ReadsKeyword(keywords) ==
    /\ Reads
    /\ ItemRead.ok
    /\ to_uppercase(FirstToken(ItemRead.l)) \in keywords

C17_FlagsAndIsrcAreTrackCommands ==
    [][ (strict /\ ReadsKeyword({KwFLAGS, KwISRC})) =>
          IF InTrack THEN result' = Running ELSE ParseFailure
      ]_vars

(***************************************************************************)
(* C18.  The tokenizer classifies a line as Unknown only when its first    *)
(* token is none of the thirteen keywords of the table: a line that starts *)
(* with one of them never tokenizes to Unknown.                            *)
(***************************************************************************)
TableKeywords ==
    {KwREM, KwCATALOG, KwCDTEXTFILE, KwTITLE, KwPERFORMER, KwSONGWRITER,
     KwFILE, KwFLAGS, KwISRC, KwTRACK, KwPREGAP, KwPOSTGAP, KwINDEX}

C18_TableKeywordsAreNeverUnknown ==
    \A i \in 1..Len(consumed) :
        (/\ consumed[i].ok
         /\ to_uppercase(FirstToken(consumed[i].l)) \in TableKeywords)
            => ~IsToken(consumed[i], "Unknown")

(***************************************************************************)
(* C19.  Keywords are matched in any upper/lower-case spelling: a line and *)
(* the line with its keyword spelled in upper case give the same command,  *)
(* the same record and the same result, and the arguments keep the case    *)
(* they were written in.                                                   *)
(***************************************************************************)
\* the lower-case spelling of each keyword
Spelling == [kw \in Recognized |-> Lowered(kw)]

\* the keyword that `word` spells in some mix of cases, `word` if none
KeywordOf(word) ==
    LET lower == Lowered(word)
        meant == {kw \in Recognized : Spelling[kw] = lower}
    IN  IF meant = {} THEN word ELSE CHOOSE kw \in meant : TRUE

\* the line with its first word replaced by the keyword it spells
Respelled(line) ==
    LET lead == Len(line) - Len(trim_start(line))
        word == FirstToken(line)
    IN  SubSeq(line, 1, lead) \o KeywordOf(word)
            \o SubSeq(line, lead + Len(word) + 1, Len(line))

\* x is written in the line, character for character
Occurs(x, line) ==
    \E k \in 1..(Len(line) + 1) : SubSeq(line, k, k + Len(x) - 1) = x

C19_KeywordsMatchInAnyCase ==
    [][ (Reads /\ ItemRead.ok) =>
          \A token \in {tokenize_line(ItemRead.l)} :
              \A again \in {tokenize_line(Respelled(ItemRead.l))} :
                  /\ token = again
                  /\ [cue |-> cue', result |-> result'] =
                         Dispatch(cue, again, strict)
                  /\ token.res = "Ok" =>
                         /\ Occurs(token.a, ItemRead.l)
                         /\ Occurs(token.b, ItemRead.l)
      ]_vars

\* `file a W`, `Track 01 A`, `title aB` pass strict parse, and the title of
\* the track is aB
C19_Witness ==
    /\ strict
    /\ result = OkResult
    /\ consumed = <<LineOk(LineFileLower), LineOk(LineTrackCap),
                    LineOk(LineTitleLower)>>
    /\ \A i \in 1..3 : Respelled(consumed[i].l) # consumed[i].l
    /\ HasTrack(cue)
    /\ CurrentTrack(cue).title = Some(<<"a", "B">>)

(***************************************************************************)
(* C20.  When the tokenizer fails on a line because a required argument is *)
(* missing, strict parse returns a Parse failure whose message is the      *)
(* tokenizer's own reason, which names the missing field.                  *)
(***************************************************************************)
\* this step reads a line on which the tokenizer returns Err(reason)
ReadsTokenizerFailure == Reads /\ ItemRead.ok /\ TokenRead.res = "Err"

C20_StrictReturnsTokenizerReason ==
    [][ (strict /\ ReadsTokenizerFailure) =>
          /\ ParseFailure
          /\ result'.msg \in {TokenRead.err, StrictFailure(TokenRead.err).msg}
      ]_vars

(***************************************************************************)
(* C21.  When the byte source returns an error for a line, parse returns   *)
(* an I/O failure, in strict and in lenient mode.                          *)
(***************************************************************************)
\* this step reads an item that is Err(io::Error)
ReadsIoError == Reads /\ ~ItemRead.ok

C21_IoErrorIsReturned ==
    [][ ReadsIoError => (result'.tag = "Err" /\ result'.kind = "Io") ]_vars

(***************************************************************************)
(* C22.  Lenient parse never panics, whatever the lines hold: a string     *)
(* argument that is a lone quote or a lone escaped quote included.         *)
(***************************************************************************)
C22_LenientNeverPanics == ~strict => result # Panicked

(***************************************************************************)
(* C23.  Indentation never determines context: a line read with less or    *)
(* with more leading whitespace is attributed to the same disc, file or    *)
(* track, with the same result.  A REM read after a TRACK goes to that     *)
(* track whatever its indentation.                                         *)
(***************************************************************************)
\* the unknown lines without their leading whitespace
FlatLines(lines) == [i \in 1..Len(lines) |-> trim_start(lines[i])]

FlatTrack(track) == [track EXCEPT !.unknown = FlatLines(track.unknown)]

FlatFile(file) ==
    [file EXCEPT !.tracks =
        [t \in 1..Len(file.tracks) |-> FlatTrack(file.tracks[t])]]

\* the record up to the indentation of the raw lines it keeps
Flat(c) ==
    [c EXCEPT !.unknown = FlatLines(c.unknown),
              !.files = [f \in 1..Len(c.files) |-> FlatFile(c.files[f])]]

\* the line with no indentation, and with a space and a tab more
Reindented(line) == {trim_start(line), <<SP, TAB>> \o line}

C23_IndentationIsIgnored ==
    [][ (Reads /\ ItemRead.ok) =>
          \A other \in Reindented(ItemRead.l) :
              \A out \in {LoopBody(cue, LineOk(other), strict)} :
                  /\ Flat(cue') = Flat(out.cue)
                  /\ result' = out.result
      ]_vars

\* FILE, an indented TRACK, a REM indented deeper and a REM not indented:
\* both comments are the track's
C23_Witness ==
    /\ Len(consumed) = 4
    /\ consumed[3] = LineOk(Indented(4, LineRem))
    /\ consumed[4] = LineOk(LineRemAgain)
    /\ Len(cue.files) = 1
    /\ cue.files[1].comments = <<>>
    /\ Len(cue.files[1].tracks) = 1
    /\ Len(cue.files[1].tracks[1].comments) = 2
    /\ cue.comments = <<>>

(***************************************************************************)
(* C24.  Unescaping returns unchanged every string that has no pair of     *)
(* surrounding double quotes and no backslash-quote sequence; applying it  *)
(* again changes nothing, and quotes inside the string are kept.           *)
(***************************************************************************)
\* the string begins with a quote and ends with another
Surrounded(s) == Len(s) >= 2 /\ s[1] = QUOTE /\ s[Len(s)] = QUOTE

\* the string contains a backslash followed by a quote
HasEscapedQuote(s) ==
    \E i \in 1..(Len(s) - 1) : s[i] = BACKSLASH /\ s[i + 1] = QUOTE

C24_UnescapeIsIdentityOnPlainStrings ==
    (output # None /\ ~Surrounded(input) /\ ~HasEscapedQuote(input)) =>
        /\ output[1] = StrOk(input)
        /\ unescape_quotes(output[1].s) = output[1]

(***************************************************************************)
(* C25.  Unescaping removes one pair of surrounding double quotes exactly  *)
(* when the string itself begins and ends with a double quote, and         *)
(* replaces each backslash-quote by a quote; a string that begins and ends *)
(* with an escaped quote keeps those quotes.                               *)
(***************************************************************************)
\* the string without its pair of surrounding quotes, if it has one
Unquoted(s) == IF Surrounded(s) THEN SubSeq(s, 2, Len(s) - 1) ELSE s

C25_UnescapeStripsOnlyWrittenQuotes ==
    output # None => output[1] = StrOk(replace_escaped(Unquoted(input)))

(***************************************************************************)
(* C26.  On a FILE line the path is the first quoted-or-bare string after  *)
(* the keyword, unescaped and without its quotes, and the format is the    *)
(* word right after the path; a FILE line with one argument only is a      *)
(* tokenizer failure, not a file with an empty path.                       *)
(***************************************************************************)
\* the words after the keyword
Arguments(line) == Tail(split(trim(line), SP))

\* the word closes a quoted string
ClosesQuote(word) == word # <<>> /\ word[Len(word)] = QUOTE

\* the number of words the first string spans: one for a bare string, up
\* to the closing quote for a quoted one, 0 if the quote is never closed
FirstStringWords(args) ==
    IF Head(args) = <<>> \/ Head(args)[1] # QUOTE THEN 1
    ELSE LET closing == {k \in 1..Len(args) :
                            /\ ClosesQuote(args[k])
                            /\ k = 1 => Len(args[1]) >= 2}
         IN  IF closing = {} THEN 0
             ELSE CHOOSE k \in closing : \A j \in closing : k <= j

\* the token the line should give
FileTokenOf(line) ==
    LET args == Arguments(line)
        k    == IF args = <<>> THEN 0 ELSE FirstStringWords(args)
    IN  IF k = 0 \/ Len(args) < k + 1 THEN TokErr("")
        ELSE TokOk("File",
                   replace_escaped(Unquoted(join(SubSeq(args, 1, k), SP))),
                   args[k + 1])

C26_FilePathThenFormat ==
    \A i \in 1..Len(consumed) :
        (consumed[i].ok /\ to_uppercase(FirstToken(consumed[i].l)) = KwFILE)
            => \A token \in {TokenOf(consumed[i])} :
               \A claimed \in {FileTokenOf(consumed[i].l)} :
                   /\ token.res = claimed.res
                   /\ claimed.res = "Ok" =>
                          (token.a = claimed.a /\ token.b = claimed.b)

(***************************************************************************)
(* C27.  In lenient mode a discarded line (tokenizer failure, empty line,  *)
(* orphan command, bad timestamp) has no effect on what follows: the       *)
(* record built from a stream is the record built from the stream without  *)
(* its discarded lines, and parse returns it in either case.               *)
(***************************************************************************)
\* the items of h from position i on that lenient mode does not discard
RECURSIVE KeptFrom(_, _, _)
KeptFrom(h, tk, i) ==
    IF i > Len(h) THEN <<>>
    ELSE (IF LenientDrops(tk, i) THEN <<>> ELSE <<h[i]>>)
             \o KeptFrom(h, tk, i + 1)

\* the stream without its discarded lines
Kept(h) == KeptFrom(h, Tokens(h), 1)

C27_DiscardedLinesLeaveNoTrace ==
    ~strict =>
        \A without \in {parse(Kept(consumed), FALSE)} :
            /\ cue = without.cue
            /\ result # Running => result = without.result

\* a line is discarded inside a track and an INDEX of the track follows it
C27_Witness ==
    /\ ~strict
    /\ result = OkResult
    /\ \E i, j \in 1..Len(consumed) :
           /\ i < j
           /\ CurTrackPos(Prefix(Tokens(consumed), i)) > 0
           /\ LenientDrops(Tokens(consumed), i)
           /\ IsToken(consumed[j], "Index")
           /\ ~LenientDrops(Tokens(consumed), j)
    /\ Len(Kept(consumed)) < Len(consumed)

(***************************************************************************)
(* C28.  A CATALOG line always writes the catalog of the disc, over any    *)
(* value written before, whatever the context: with a file or a track     *)
(* open it changes the catalog of the disc only, and leaves every file,    *)
(* every track and the other fields of the disc as they were.              *)
(***************************************************************************)
C28_CatalogWritesDiscOnly ==
    [][ ReadsToken("Catalog") =>
          /\ result' = Running
          /\ cue'.catalog = Some(TokenRead.a)
          /\ cue'.files = cue.files
          /\ \A field \in (DOMAIN cue) \ {"catalog"} :
                 cue'[field] = cue[field]
      ]_vars

\* with a track open, a second CATALOG line replaced the number of the first
C28_Witness ==
    /\ Len(consumed) = 4
    /\ IsToken(consumed[1], "File")
    /\ IsToken(consumed[2], "Track")
    /\ IsToken(consumed[3], "Catalog")
    /\ IsToken(consumed[4], "Catalog")
    /\ TokenOf(consumed[3]).a # TokenOf(consumed[4]).a
    /\ cue.catalog = Some(TokenOf(consumed[4]).a)
    /\ cue.files = parse(SubSeq(consumed, 1, 2), strict).cue.files

(***************************************************************************)
(* C29.  A processed line changes at most the fields of the disc itself,   *)
(* the last file, or the last track of the last file.  Files and tracks    *)
(* are only appended: the files before the last one, and the tracks of     *)
(* the last file before its last one, stay as they are, and a file or a    *)
(* track that a new one is appended after is left as it was.               *)
(***************************************************************************)
\* the sequence `after` is `before`, where only the last entry may differ,
\* or `before` with one entry appended
OnlyLastChanges(before, after) ==
    \/ /\ Len(after) = Len(before)
       /\ \A k \in 1..(Len(before) - 1) : after[k] = before[k]
    \/ /\ Len(after) = Len(before) + 1
       /\ \A k \in 1..Len(before) : after[k] = before[k]

C29_OnlyTheLastFileAndTrackChange ==
    [][ Reads =>
          /\ OnlyLastChanges(cue.files, cue'.files)
          /\ (Len(cue'.files) = Len(cue.files) /\ cue.files # <<>>) =>
                 OnlyLastChanges(cue.files[CurF(cue)].tracks,
                                 cue'.files[CurF(cue)].tracks)
      ]_vars

\* a second file with a track of its own, after a first file with a track
C29_Witness ==
    /\ Len(consumed) = 4
    /\ Len(cue.files) = 2
    /\ Len(cue.files[1].tracks) = 1
    /\ Len(cue.files[2].tracks) = 1
    /\ cue.files[1] = parse(SubSeq(consumed, 1, 2), strict).cue.files[1]

====
